---- MODULE Spec2Model ----
(***************************************************************************)
(* Stock-Screening-Assistant: the DataProcessorAgent of                    *)
(* backend/agents/data_processor.py (FilterProcessor.apply_filters, the    *)
(* ranking / limiting / median / result assembly of invoke, and the        *)
(* per-sector cache of the agent instance).                                *)
(*                                                                         *)
(* Encoding of Python values                                               *)
(*   Optional[x]  : None is <<>>, a present x is <<x>>.                     *)
(*   numbers      : integers counting hundredths (Scale = 100 is 1.00), so  *)
(*                  that round(median, 2) of whole-number metrics is exact. *)
(*   str keys     : a filter key is the sequence of its segments between    *)
(*                  underscores: "peRatio_lt" is <<"peRatio", "lt">>,       *)
(*                  "price" is <<"price">>, "free_cash_lt" is               *)
(*                  <<"free", "cash", "lt">>.  rsplit('_', 1) and           *)
(*                  split('_') are computed on that sequence.               *)
(*   dict         : a function whose DOMAIN is the set of keys; the filters *)
(*                  dict, whose insertion order the code reads, is a        *)
(*                  sequence of [key, value] items with distinct keys.      *)
(***************************************************************************)
EXTENDS Integers, Sequences, FiniteSets, TLC

VARIABLES
    cache,        \* DataProcessorAgent._sector_cache
    input,        \* the argument of the last invoke call
    result,       \* the value returned by the last invoke call
    pc,           \* "idle" before the first call, "returned" after a call
    lastPop,      \* history: the population `stocks` the last call filtered
    lastMedPop,   \* history: the population the returned median row was computed over
    lastLists,    \* history: the lists `filtered` (as returned by apply_filters) and `stocks` (after line 288) of the last call
    medSrc,       \* history: per sector, the population the cached median row was computed over
    fetchLog,     \* history: the sectors fetched so far, those whose fetch returned [], and whether the last call fetched
    filt_stocks,  \* apply_filters: argument stocks
    filt_filters, \* apply_filters: argument filters
    filt_out,     \* apply_filters: its outcome
    filt_again,   \* apply_filters: the outcome of applying it to its own output
    med_stocks,   \* median computation: the list `stocks`
    med_keys,     \* median computation: the set metric_keys
    med_out,      \* median computation: the dict medians and the row sector_medians
    ri_parsed,    \* IntentParserAgent.invoke: the intent parsed from the query
    ri_context,   \* IntentParserAgent.invoke: context_intent, the previous turn's intent
    ri_out,       \* IntentParserAgent.invoke: its outcome
    wf_node,      \* supply-chain workflow: the node that runs next, or "END"
    wf_state,     \* supply-chain workflow: the AgentState
    wf_steps,     \* supply-chain workflow: the number of nodes run so far
    wf_last,      \* history: the node that ran last, what its tools returned and the updates it returned
    ch_pc,        \* inter-agent chain: the step that runs next, or "done"
    ch_parsed,    \* inter-agent chain: what the intent parser returned
    ch_data,      \* inter-agent chain: the dict handed from step to step
    ch_calls,     \* history: the agents (and the language model) invoked so far, in order
    ch_seen,      \* history: the dict the data processor returned and the dict the explanation agent received
    fm_pc,        \* fetch_multiple: the position of the calling thread
    fm_stock_list,\* fetch_multiple: argument stock_list (symbols)
    fm_futures,   \* fetch_multiple: the futures submitted so far, in submission order
    fm_yielded,   \* fetch_multiple: the futures as_completed has yielded
    fm_results    \* fetch_multiple: the list results

vars == <<cache, input, result, pc, lastPop, lastMedPop, lastLists, medSrc, fetchLog,
          filt_stocks, filt_filters, filt_out, filt_again,
          med_stocks, med_keys, med_out,
          ri_parsed, ri_context, ri_out,
          wf_node, wf_state, wf_steps, wf_last,
          ch_pc, ch_parsed, ch_data, ch_calls, ch_seen,
          fm_pc, fm_stock_list, fm_futures, fm_yielded, fm_results>>

agentVars == <<cache, input, result, lastPop, lastMedPop, lastLists, medSrc, fetchLog>>
filterVars == <<filt_stocks, filt_filters, filt_out, filt_again>>
medVars == <<med_stocks, med_keys, med_out>>

\* The variables of the components that the agent and apply_filters do not touch.
intentVars == <<ri_parsed, ri_context, ri_out>>
wfVars == <<wf_node, wf_state, wf_steps, wf_last>>
chainVars == <<ch_pc, ch_parsed, ch_data, ch_calls, ch_seen>>
fmVars == <<fm_pc, fm_stock_list, fm_futures, fm_yielded, fm_results>>
extVars == <<chainVars, fmVars>>
auxVars == <<medVars, intentVars, wfVars, extVars>>

(***************************************************************************)
(* Python values                                                           *)
(***************************************************************************)
None == <<>>
Some(v) == <<v>>
Val(x) == x[1]

Scale == 100

EmptyDict == <<>>
DictSet(d, k, v) == [x \in (DOMAIN d) \cup {k} |-> IF x = k THEN v ELSE d[x]]

\* The components at rest.
NoMedians == [done |-> FALSE, medians |-> EmptyDict, row |-> EmptyDict]
MedIdle == med_stocks = <<>> /\ med_keys = {} /\ med_out = NoMedians
NoOutcome == [done |-> FALSE]
IntentIdle == ri_parsed = <<>> /\ ri_context = <<>> /\ ri_out = NoOutcome

\* create_initial_state: the AgentState a workflow run starts from.
create_initial_state ==
    [product_info |-> None,
     supplier_info |-> None,
     historical_sales_data |-> <<>>,
     baseline_forecast |-> None,
     weather_forecast |-> <<>>,
     average_demand_factor |-> Scale,
     recommendation |-> None,
     executive_summary |-> "",
     current_step |-> "initialized",
     errors |-> <<>>]

\* No node has run yet.
NoStep == [node |-> "START", tools |-> <<>>, fetches |-> <<>>, raised |-> FALSE,
           received |-> <<>>, updates |-> EmptyDict]

WfIdle ==
    /\ wf_node = "data_analyst"
    /\ wf_state = create_initial_state
    /\ wf_steps = 0
    /\ wf_last = NoStep
\* The chain before its first step: nothing parsed, nothing invoked.
NoSeen == [processor |-> <<>>, explainer |-> <<>>]
ChainIdle ==
    /\ ch_pc = "parser_step"
    /\ ch_parsed = <<>>
    /\ ch_data = EmptyDict
    /\ ch_calls = <<>>
    /\ ch_seen = NoSeen

\* fetch_multiple of an empty stock_list, before its first statement.
FmIdle ==
    /\ fm_pc = "submit"
    /\ fm_stock_list = <<>>
    /\ fm_futures = <<>>
    /\ fm_yielded = {}
    /\ fm_results = <<>>

ExtIdle == ChainIdle /\ FmIdle
AuxIdle == MedIdle /\ IntentIdle /\ WfIdle /\ ExtIdle

(***************************************************************************)
(* Bounds                                                                  *)
(***************************************************************************)
MaxVal == 2          \* metric values and thresholds range over 0..MaxVal (whole units)
MaxPop == 2          \* longest generated stock list given to apply_filters
MaxLimit == 2        \* explicit limits range over -MaxLimit..MaxLimit
MaxSteps == 6        \* nodes run in one supply-chain workflow run
MaxSymbols == 3      \* longest stock_list given to fetch_multiple
MaxWorkers == 2      \* max_workers of the thread pool of fetch_multiple

(***************************************************************************)
(* Data model                                                              *)
(***************************************************************************)
\* The metric attributes of StockData that the model carries (three of the
\* eight Optional[float] fields; the other five behave like peRatio).
metric_keys_full == {"price", "peRatio", "marketCap"}

StockData(symbol, name, sector, price, peRatio, marketCap) ==
    [symbol |-> symbol, name |-> name, sector |-> sector,
     price |-> price, peRatio |-> peRatio, marketCap |-> marketCap]

to_dict(s) == [k \in DOMAIN s |-> s[k]]

\* getattr(stock, base_key, default) for a base_key given by its segments.
\* Filter keys name metrics or unknown names, never symbol, name, sector or a
\* method of StockData; a name with an underscore is no attribute.
getattr(stock, base_key, default) ==
    IF Len(base_key) = 1 /\ base_key[1] \in metric_keys_full
    THEN stock[base_key[1]]
    ELSE default

(***************************************************************************)
(* FilterProcessor.apply_filters                                           *)
(***************************************************************************)
\* A mutation of passes: lt and gt compared non-strictly.
RECURSIVE passes_nonstrict(_, _, _)
passes_nonstrict(stock, filters, i) ==
    IF i > Len(filters) THEN "True"
    ELSE LET key == filters[i].key
             value == filters[i].value
         IN  IF Len(key) < 2 THEN "ValueError"
             ELSE LET base_key == SubSeq(key, 1, Len(key) - 1)
                      op == key[Len(key)]
                      stock_val == getattr(stock, base_key, None)
                  IN  IF stock_val = None THEN "False"
                      ELSE IF op = "lt" /\ Val(stock_val) > value THEN "False"
                      ELSE IF op = "gt" /\ Val(stock_val) < value THEN "False"
                      ELSE IF op = "eq" /\ Val(stock_val) # value THEN "False"
                      ELSE passes_nonstrict(stock, filters, i + 1)

\* passes(stock): the loop over filters.items() from item i on.  The outcome
\* is "True", "False", or "ValueError" when key.rsplit('_', 1) yields one
\* part and the unpacking into (base_key, op) raises.
RECURSIVE passes(_, _, _)
passes(stock, filters, i) ==
    IF i > Len(filters) THEN "True"
    ELSE LET key == filters[i].key
             value == filters[i].value
         IN  IF Len(key) < 2 THEN "ValueError"
             ELSE LET base_key == SubSeq(key, 1, Len(key) - 1)
                      op == key[Len(key)]
                      stock_val == getattr(stock, base_key, None)
                  IN  IF stock_val = None THEN "False"
                      ELSE IF op = "lt" /\ Val(stock_val) >= value THEN "False"
                      ELSE IF op = "gt" /\ Val(stock_val) <= value THEN "False"
                      ELSE IF op = "eq" /\ Val(stock_val) # value THEN "False"
                      ELSE passes(stock, filters, i + 1)

\* A mutation of apply_filters: the passing stocks are returned in reverse.
apply_filters_reversed(stocks, filters) ==
    LET outcome(n) == passes(stocks[n], filters, 1)
        keep(s) == passes(s, filters, 1) = "True"
        kept == SelectSeq(stocks, keep)
    IN  IF \E n \in 1..Len(stocks) : outcome(n) = "ValueError"
        THEN [raised |-> TRUE, list |-> <<>>, same |-> FALSE]
        ELSE [raised |-> FALSE,
              list |-> IF kept = <<>> THEN <<>>
                       ELSE [i \in 1..Len(kept) |-> kept[Len(kept) + 1 - i]],
              same |-> FALSE]

\* A mutation of apply_filters: when every stock passes, the argument list
\* itself is returned instead of a copy.
apply_filters_aliasing(stocks, filters) ==
    LET outcome(n) == passes(stocks[n], filters, 1)
        keep(s) == passes(s, filters, 1) = "True"
    IN  IF \E n \in 1..Len(stocks) : outcome(n) = "ValueError"
        THEN [raised |-> TRUE, list |-> <<>>, same |-> FALSE]
        ELSE [raised |-> FALSE, list |-> SelectSeq(stocks, keep),
              same |-> SelectSeq(stocks, keep) = stocks]

\* [s for s in stocks if passes(s)]: raises when passes raises for a stock.
\* The comprehension builds a new list object: `same` tells whether the
\* returned list is the argument object.
apply_filters(stocks, filters) ==
    LET outcome(n) == passes(stocks[n], filters, 1)
        keep(s) == passes(s, filters, 1) = "True"
    IN  IF \E n \in 1..Len(stocks) : outcome(n) = "ValueError"
        THEN [raised |-> TRUE, list |-> <<>>, same |-> FALSE]
        ELSE [raised |-> FALSE, list |-> SelectSeq(stocks, keep), same |-> FALSE]

(***************************************************************************)
(* Helpers of DataProcessorAgent.invoke                                    *)
(***************************************************************************)
Range(seq) == {seq[i] : i \in 1..Len(seq)}
Min(a, b) == IF a < b THEN a ELSE b
Max(a, b) == IF a > b THEN a ELSE b

\* A mutation of list_sort: the order is reversed.
list_sort_reversed(seq, keys, reverse) ==
    LET n == Len(seq)
        before(j, i) == IF keys[j] = keys[i] THEN j < i
                        ELSE IF ~reverse THEN keys[j] > keys[i]
                        ELSE keys[j] < keys[i]
        position(i) == Cardinality({j \in 1..n : before(j, i)}) + 1
    IN  IF n = 0 THEN <<>> ELSE [p \in 1..n |-> seq[CHOOSE i \in 1..n : position(i) = p]]

\* list.sort(key=..., reverse=...): keys[i] is the key of seq[i].  The sort
\* is stable in both directions: items with equal keys keep their order.
list_sort(seq, keys, reverse) ==
    LET n == Len(seq)
        before(j, i) == IF keys[j] = keys[i] THEN j < i
                        ELSE IF reverse THEN keys[j] > keys[i]
                        ELSE keys[j] < keys[i]
        position(i) == Cardinality({j \in 1..n : before(j, i)}) + 1
    IN  IF n = 0 THEN <<>> ELSE [p \in 1..n |-> seq[CHOOSE i \in 1..n : position(i) = p]]

\* seq[:n] for an integer n: a negative n counts from the end.
slice_to(seq, n) ==
    IF n >= 0 THEN SubSeq(seq, 1, Min(n, Len(seq)))
    ELSE SubSeq(seq, 1, Max(0, Len(seq) + n))

\* x or 0, for an Optional number x.
or_zero(x) == IF x = None \/ Val(x) = 0 THEN 0 ELSE Val(x)

\* key.rsplit("_", 1)[0]: everything before the last underscore, the whole
\* key when it has none.
rsplit_head(key) == IF Len(key) >= 2 THEN SubSeq(key, 1, Len(key) - 1) ELSE key

\* k.split("_")[0]: the text before the first underscore.
split_head(key) == key[1]

\* bool(key) for a str: only the empty string is false.
truthy(key) == key # <<"">>

\* statistics.median(values) for a non-empty list, then round(_, 2), in
\* hundredths: the middle value, or the mean of the two middle values
\* rounded to the nearest hundredth.
median_round2(values) ==
    LET n == Len(values)
        sorted == list_sort(values, values, FALSE)
    IN  IF n % 2 = 1 THEN sorted[(n + 1) \div 2]
        ELSE (sorted[n \div 2] + sorted[n \div 2 + 1] + 1) \div 2

\* values = [d.get(key) for d in all_dicts if isinstance(d.get(key), (int, float))]
present_values(all_dicts, key) ==
    LET has(d) == d[key] # None
        kept == SelectSeq(all_dicts, has)
    IN  IF kept = <<>> THEN <<>> ELSE [i \in 1..Len(kept) |-> Val(kept[i][key])]

\* A mutation of compute_medians: a metric without a present value gets 0.
compute_medians_zero(stocks) ==
    LET all_dicts == IF stocks = <<>> THEN <<>>
                     ELSE [i \in 1..Len(stocks) |-> to_dict(stocks[i])]
    IN  [key \in metric_keys_full |->
            IF present_values(all_dicts, key) = <<>> THEN 0
            ELSE median_round2(present_values(all_dicts, key))]

\* The dict medians: an entry for every metric with a present value.
compute_medians(stocks) ==
    LET all_dicts == IF stocks = <<>> THEN <<>>
                     ELSE [i \in 1..Len(stocks) |-> to_dict(stocks[i])]
        withValues == {key \in metric_keys_full : present_values(all_dicts, key) # <<>>}
    IN  [key \in withValues |-> median_round2(present_values(all_dicts, key))]

DefaultLimit == 5


(***************************************************************************)
(* DataProcessorAgent.invoke                                               *)
(***************************************************************************)
\* A mutation of the except branch: the exception leaves invoke, no dict is returned.
exception_result_propagated(message) ==
    [raised |-> message]

\* The return value of the except branch: str(e) of the exception raised.
exception_result(message) ==
    [success |-> FALSE, error |-> message, results |-> <<>>]

\* entry: symbol, name, sector and every metric of metric_keys that is a key
\* of stock.to_dict() (its value may be None).
make_entry(stock, metric_keys) ==
    LET stock_dict == to_dict(stock)
        keys == {"symbol", "name", "sector"} \cup (metric_keys \cap DOMAIN stock_dict)
    IN  [k \in keys |-> stock_dict[k]]

\* sector_medians as built when the cache holds no medians: the sentinel
\* fields, then medians.get(key) for each key of metric_keys.
make_sector_medians(stocks, sector, metric_keys) ==
    LET medians == compute_medians(stocks)
        base == [symbol |-> "Sector", name |-> "Median", sector |-> sector]
        keys == (DOMAIN base) \cup metric_keys
    IN  [k \in keys |->
            IF k \in metric_keys
            THEN IF k \in DOMAIN medians THEN Some(medians[k]) ELSE None
            ELSE base[k]]

\* A mutation of rank_filtered: the filtered metric is sorted descending.
rank_filtered_descending(filtered, filters) ==
    LET metric_name == rsplit_head(filters[1].key)
        keys == [i \in 1..Len(filtered) |->
                    or_zero(getattr(filtered[i], metric_name, Some(0)))]
    IN  list_sort(filtered, keys, TRUE)

\* Lines 273-283: sort on the metric of the first filter key, ascending.
rank_filtered(filtered, filters) ==
    LET first_filter_key == filters[1].key
    IN  IF truthy(first_filter_key)
        THEN LET metric_name == rsplit_head(first_filter_key)
                 keys == [i \in 1..Len(filtered) |->
                             or_zero(getattr(filtered[i], metric_name, Some(0)))]
             IN  list_sort(filtered, keys, FALSE)
        ELSE LET keys == [i \in 1..Len(filtered) |-> or_zero(filtered[i].marketCap)]
             IN  list_sort(filtered, keys, TRUE)

\* Lines 285-288.
limit_to(filtered, limit) ==
    IF limit # None /\ Val(limit) # 0
    THEN slice_to(filtered, Val(limit))
    ELSE slice_to(filtered, DefaultLimit)

\* A mutation of display_metric_keys: only the metrics the caller listed.
display_metric_keys_listed(intent) == Range(intent.metrics)

\* Line 293.
display_metric_keys(intent) ==
    Range(intent.metrics) \cup {split_head(intent.filters[i].key) : i \in 1..Len(intent.filters)}

\* A mutation of assemble_results: the median row is put first.
assemble_results_median_first(output, sector_medians) == <<sector_medians>> \o output

\* output.append(sector_medians), line 326.
assemble_results(output, sector_medians) == Append(output, sector_medians)

\* The cache after line 324, self._sector_cache[intent.sector] = {"medians": ...}.
store_medians(c, sector, sector_medians) ==
    DictSet(c, sector, DictSet(EmptyDict, "medians", sector_medians))

\* The list objects of a call after line 288: whether apply_filters returned,
\* the list it returned (before the in-place sort), and the content of the
\* list `stocks`, which the sector cache holds, after the sort of the list
\* `filtered` and the slice.
NoLists == [ran |-> FALSE, filtered |-> <<>>, held |-> <<>>]

\* The fetches of an agent instance: no call of fetch_multiple yet.
NoFetches == [fetched |-> {}, emptied |-> {}, made |-> FALSE, again |-> FALSE]

\* A mutation of the cache test: an empty cached population is no hit.
cache_hit_nonempty(c, sector) ==
    sector \in DOMAIN c /\ "stocks" \in DOMAIN c[sector] /\ c[sector]["stocks"] # <<>>

\* The stocks cache holds the population of the sector (line 254).
cache_hit(c, sector) == sector \in DOMAIN c /\ "stocks" \in DOMAIN c[sector]

\* A mutation of build_results: the two counts are exchanged.
build_results_exchanged(intent, stocks, filtered, output, query) ==
    [success |-> TRUE, intent |-> intent,
     total_found |-> Len(filtered), after_filters |-> Len(stocks),
     results |-> output, query |-> query]

\* The dict results of lines 327-334.
build_results(intent, stocks, filtered, output, query) ==
    [success |-> TRUE, intent |-> intent,
     total_found |-> Len(stocks), after_filters |-> Len(filtered),
     results |-> output, query |-> query]

\* invoke(input) in the cache state c, where fetched is what
\* fetcher.fetch_multiple(data_source.get_by_sector(sector)) returns if it is
\* called.  Yields the new cache, the returned dict, whether the fetch was
\* made, the list `stocks`, and how the median row was obtained.
invoke(c, inp, fetched) ==
    IF inp.intent = None
    THEN [cache |-> c, ret |-> exception_result("AttributeError"),
          fetch |-> FALSE, stocks |-> <<>>, medians |-> "none", lists |-> NoLists]
    ELSE
    LET intent == Val(inp.intent)
        query == inp.query
        sector == intent.sector
        hit == cache_hit(c, sector)
        stocks == IF hit THEN c[sector]["stocks"] ELSE fetched
        c1 == IF hit THEN c
              ELSE DictSet(c, sector,
                       DictSet(IF sector \in DOMAIN c THEN c[sector] ELSE EmptyDict,
                               "stocks", stocks))
        base == [cache |-> c1, fetch |-> ~hit, stocks |-> stocks, medians |-> "none"]
    IN  IF stocks = <<>>
        THEN base @@
             [ret |-> [success |-> FALSE, error |-> "No data fetched", results |-> <<>>,
                       intent |-> intent, input |-> query],
              lists |-> NoLists]
        ELSE
        LET applied == apply_filters(stocks, intent.filters)
        IN  IF applied.raised
            THEN base @@ [ret |-> exception_result("ValueError"), lists |-> NoLists]
            ELSE IF intent.filters = <<>>
            THEN base @@ [ret |-> exception_result("StopIteration"),
                          lists |-> [ran |-> TRUE, filtered |-> applied.list,
                                     held |-> stocks]]
            ELSE
            LET ranked == rank_filtered(applied.list, intent.filters)
                filtered == limit_to(ranked, intent.limit)
                metric_keys == display_metric_keys(intent)
                output == IF filtered = <<>> THEN <<>>
                          ELSE [i \in 1..Len(filtered) |-> make_entry(filtered[i], metric_keys)]
                medHit == sector \in DOMAIN c1 /\ "medians" \in DOMAIN c1[sector]
                sector_medians == IF medHit THEN c1[sector]["medians"]
                                  ELSE make_sector_medians(stocks, intent.sector, metric_keys)
                c2 == IF medHit THEN c1 ELSE store_medians(c1, intent.sector, sector_medians)
            IN  [cache |-> c2, fetch |-> ~hit, stocks |-> stocks,
                 medians |-> IF medHit THEN "cached" ELSE "computed",
                 lists |-> [ran |-> TRUE, filtered |-> applied.list,
                            held |-> IF applied.same THEN ranked ELSE stocks],
                 ret |-> build_results(intent, stocks, filtered,
                                       assemble_results(output, sector_medians), query)]


(***************************************************************************)
(* Inputs: the populations a fetch can return and the intents of a call    *)
(***************************************************************************)
\* "Energy" is a GICS sector with constituents; "luxury" is no GICS sector, so
\* get_by_sector returns [] for it and fetch_multiple returns [].
Sectors == {"Energy", "luxury"}

Symbols == <<"AAA", "BBB", "CCC", "DDD", "EEE", "FFF", "GGG">>
Names   == <<"Aaa Inc", "Bbb Inc", "Ccc Inc", "Ddd Inc", "Eee Inc", "Fff Inc", "Ggg Inc">>

N == None
U(v) == Some(v * Scale)

\* Metric values <<price, peRatio, marketCap>> of the stocks of a fetched
\* population, in the order fetch_multiple returns them: no stock fetched, a
\* population of three, and (a later market snapshot) a population of seven.
Shapes ==
    { <<>>,
      << <<U(2), U(1), U(3)>>, <<U(1), N, U(1)>>, <<U(2), U(2), N>> >>,
      << <<U(1), U(3), U(1)>>, <<U(2), N, U(2)>>, <<U(1), U(2), N>>, <<U(2), U(1), U(1)>>,
         <<U(1), U(1), U(2)>>, <<U(2), U(2), U(2)>>, <<U(1), N, U(1)>> >> }

Population(shape, sector) ==
    IF shape = <<>> THEN <<>>
    ELSE [i \in 1..Len(shape) |->
            StockData(Symbols[i], Names[i], sector, shape[i][1], shape[i][2], shape[i][3])]

Populations(sector) ==
    IF sector = "Energy" THEN {Population(sh, sector) : sh \in Shapes} ELSE {<<>>}

Thresholds == {v * Scale : v \in 0..MaxVal}

Item(key, value) == [key |-> key, value |-> value]

\* Filter dicts of a call to invoke.
InvokeFilterSets ==
    {<<>>}
    \cup {<<Item(k, t)>> :
            k \in {<<"price", "lt">>, <<"price", "gt">>, <<"peRatio", "gt">>,
                   <<"price", "under">>, <<"price">>},
            t \in Thresholds}
    \cup {<<Item(<<"peRatio", "gt">>, 0), Item(<<"price", "lt">>, t)>> : t \in Thresholds}
    \cup {<<Item(<<"free", "cash", "lt">>, MaxVal * Scale)>>}

MetricLists == {<<"price">>, <<"peRatio", "volume">>}

Limits == {None} \cup {Some(n) : n \in (0 - MaxLimit)..MaxLimit}

Intents ==
    [sector : Sectors, metrics : MetricLists, filters : InvokeFilterSets, limit : Limits]

Inputs == {[intent |-> Some(i), query |-> "q"] : i \in Intents}
          \cup {[intent |-> None, query |-> "q"]}

\* What the data source and the fetcher can return for the call: consulted
\* only when the call reaches line 258.
FetchOutcomes(c, inp) ==
    IF inp.intent = None THEN {<<>>}
    ELSE LET sector == Val(inp.intent).sector
         IN  IF cache_hit(c, sector)
             THEN {<<>>}
             ELSE Populations(sector)

\* The fetch history after a call: r is what invoke yielded for inp.
log_fetch(log, inp, r) ==
    IF ~r.fetch
    THEN [log EXCEPT !.made = FALSE, !.again = FALSE]
    ELSE LET sector == Val(inp.intent).sector
         IN  [fetched |-> log.fetched \cup {sector},
              emptied |-> IF r.stocks = <<>> THEN log.emptied \cup {sector}
                          ELSE log.emptied,
              made |-> TRUE,
              again |-> sector \in log.fetched]

NoCall == [intent |-> None, query |-> ""]
NoResult == [success |-> FALSE, error |-> "no call", results |-> <<>>]

(***************************************************************************)
(* The agent: one instance, any sequence of invoke calls                   *)
(***************************************************************************)
Init ==
    /\ cache = EmptyDict
    /\ input = NoCall
    /\ result = NoResult
    /\ pc = "idle"
    /\ lastPop = <<>>
    /\ lastMedPop = <<>>
    /\ lastLists = NoLists
    /\ medSrc = [s \in Sectors |-> <<>>]
    /\ fetchLog = NoFetches
    /\ filt_stocks = <<>>
    /\ filt_filters = <<>>
    /\ filt_out = [raised |-> FALSE, list |-> <<>>, same |-> FALSE]
    /\ filt_again = [raised |-> FALSE, list |-> <<>>, same |-> FALSE]
    /\ AuxIdle

\* A call of invoke, from its entry to its return.
Invoke ==
    /\ pc = "idle"
    /\ \E inp \in Inputs :
        \E fetched \in FetchOutcomes(cache, inp) :
            \E r \in {invoke(cache, inp, fetched)} :
                /\ cache' = r.cache
                /\ input' = inp
                /\ result' = r.ret
                /\ pc' = "returned"
                /\ lastPop' = r.stocks
                /\ lastLists' = r.lists
                /\ lastMedPop' = IF r.medians = "computed" THEN r.stocks
                                 ELSE IF r.medians = "cached"
                                 THEN medSrc[Val(inp.intent).sector]
                                 ELSE <<>>
                /\ medSrc' = IF r.medians = "computed"
                             THEN [medSrc EXCEPT ![Val(inp.intent).sector] = r.stocks]
                             ELSE medSrc
                /\ fetchLog' = log_fetch(fetchLog, inp, r)
                /\ UNCHANGED filterVars
                /\ UNCHANGED auxVars

\* The caller has taken the returned dict; the agent instance (module level
\* in chains/inter_agent_chain.py) waits for the next request with its cache.
NextRequest ==
    /\ pc = "returned"
    /\ pc' = "idle"
    /\ input' = NoCall
    /\ result' = NoResult
    /\ lastPop' = <<>>
    /\ lastMedPop' = <<>>
    /\ lastLists' = NoLists
    /\ fetchLog' = [fetchLog EXCEPT !.made = FALSE, !.again = FALSE]
    /\ UNCHANGED <<cache, medSrc, filterVars>>
    /\ UNCHANGED auxVars

Next == Invoke \/ NextRequest

Spec == Init /\ [][Next]_vars

(***************************************************************************)
(* apply_filters as a function: every stock list and filter dict within    *)
(* the bounds, applied once                                                *)
(***************************************************************************)
OptVals == {None} \cup {U(v) : v \in 0..MaxVal}

\* Stocks by their <<price, peRatio>>; marketCap is not filtered on.
FilterShapes ==
    UNION {[1..n -> OptVals \X {None, U(1)}] : n \in 0..MaxPop}

FilterStocks ==
    {IF sh = <<>> THEN <<>>
     ELSE [i \in 1..Len(sh) |->
             StockData(Symbols[i], Names[i], "Energy", sh[i][1], sh[i][2], None)]
     : sh \in FilterShapes}

FilterKeys ==
    ({"price", "peRatio"} \X {"lt", "gt", "eq"})
    \cup {<<"price", "under">>, <<"volume", "gt">>, <<"free", "cash", "lt">>, <<"price">>}

FilterSets ==
    {<<>>}
    \cup {<<Item(k, t)>> : k \in FilterKeys, t \in Thresholds}
    \cup {<<Item(p[1], t), Item(p[2], u)>> :
            p \in { << <<"price", "gt">>, <<"price", "lt">> >>,
                    << <<"peRatio", "eq">>, <<"price", "under">> >>,
                    << <<"peRatio", "lt">>, <<"price">> >> },
            t \in Thresholds, u \in Thresholds}

InitFilter ==
    /\ cache = EmptyDict
    /\ input = NoCall
    /\ result = NoResult
    /\ pc = "idle"
    /\ lastPop = <<>>
    /\ lastMedPop = <<>>
    /\ lastLists = NoLists
    /\ medSrc = [s \in Sectors |-> <<>>]
    /\ fetchLog = NoFetches
    /\ filt_stocks \in FilterStocks
    /\ filt_filters \in FilterSets
    /\ filt_out = [raised |-> FALSE, list |-> <<>>, same |-> FALSE]
    /\ filt_again = [raised |-> FALSE, list |-> <<>>, same |-> FALSE]
    /\ AuxIdle

ApplyFilters ==
    /\ pc = "idle"
    /\ pc' = "filtered"
    /\ filt_out' = apply_filters(filt_stocks, filt_filters)
    /\ UNCHANGED <<agentVars, filt_stocks, filt_filters, filt_again>>
    /\ UNCHANGED auxVars

NextFilter == ApplyFilters

\* apply_filters(apply_filters(stocks, filters), filters): the second call
\* is made on the list the first returned; an exception of the first
\* propagates.
ApplyFiltersAgain ==
    /\ pc = "filtered"
    /\ pc' = "refiltered"
    /\ filt_again' = IF filt_out.raised THEN filt_out
                     ELSE apply_filters(filt_out.list, filt_filters)
    /\ UNCHANGED <<agentVars, filt_stocks, filt_filters, filt_out, auxVars>>

NextRefilter == ApplyFilters \/ ApplyFiltersAgain

SpecRefilter == InitFilter /\ [][NextRefilter]_vars

SpecFilter == InitFilter /\ [][NextFilter]_vars

(***************************************************************************)
(* Properties                                                              *)
(***************************************************************************)
WellFormed(filters) == \A i \in 1..Len(filters) : Len(filters[i].key) >= 2
MetricOf(key) == SubSeq(key, 1, Len(key) - 1)
OpOf(key) == key[Len(key)]
ValueOf(stock, metric) == getattr(stock, metric, None)

\* An entity satisfies every predicate of the filter dict.
Satisfies(stock, filters) ==
    \A i \in 1..Len(filters) :
        LET v == ValueOf(stock, MetricOf(filters[i].key))
            op == OpOf(filters[i].key)
            t == filters[i].value
        IN  /\ v # None
            /\ (op = "lt" => Val(v) < t)
            /\ (op = "gt" => Val(v) > t)
            /\ (op = "eq" => Val(v) = t)

\* C1: apply_filters keeps an entity iff, for every filter key <metric>_<op>
\* with threshold t, its value for the metric is present and satisfies the
\* strict lt / gt or the eq comparison; an absent metric excludes the entity
\* and raises nothing.  The kept entities are exactly the satisfying ones, in
\* input order.
C1_FilterIff ==
    (pc = "filtered" /\ WellFormed(filt_filters)) =>
        /\ ~filt_out.raised
        /\ LET sat(s) == Satisfies(s, filt_filters)
           IN  filt_out.list = SelectSeq(filt_stocks, sat)

\* C1 witness: price_lt t applied to a stock whose price equals t (excluded),
\* a stock without a price (excluded) ... and one below t (kept).
C1_Witness ==
    /\ pc = "filtered"
    /\ Len(filt_filters) = 1
    /\ filt_filters[1].key = <<"price", "lt">>
    /\ Len(filt_stocks) = 2
    /\ filt_stocks[1].price = Some(filt_filters[1].value)
    /\ filt_stocks[2].price # None
    /\ Val(filt_stocks[2].price) < filt_filters[1].value
    /\ filt_out.list = <<filt_stocks[2]>>

\* C1 witness for the absent metric.
C1_WitnessAbsent ==
    /\ pc = "filtered"
    /\ Len(filt_filters) = 1
    /\ filt_filters[1].key = <<"peRatio", "gt">>
    /\ Len(filt_stocks) = 2
    /\ filt_stocks[1].peRatio = None
    /\ filt_out = [raised |-> FALSE, list |-> <<filt_stocks[2]>>]

HasUnknownOp(filters) ==
    \E i \in 1..Len(filters) :
        Len(filters[i].key) >= 2 /\ OpOf(filters[i].key) \notin {"lt", "gt", "eq"}

\* C2: a filter key whose suffix after the last underscore is none of lt, gt,
\* eq makes filtering signal an error; it never lets entities pass.
C2_UnknownOpRaises ==
    (/\ pc = "filtered"
     /\ HasUnknownOp(filt_filters)
     /\ \E n \in 1..Len(filt_stocks) : Satisfies(filt_stocks[n], filt_filters)) =>
        filt_out.raised

(***************************************************************************)
(* Properties of invoke                                                    *)
(***************************************************************************)
Returned == pc = "returned" /\ input.intent # None
Intent == Val(input.intent)
Succeeded == Returned /\ result.success

\* The rows of a successful result before its last row, and its last row.
EntityRows == SubSeq(result.results, 1, Len(result.results) - 1)
LastRow == result.results[Len(result.results)]
IsSentinel(row) == row.symbol = "Sector" /\ row.name = "Median"

\* The index in the population of the stock a row was made from (0 if none).
IndexIn(pop, row) ==
    IF \E n \in 1..Len(pop) : pop[n].symbol = row.symbol /\ pop[n].name = row.name
    THEN CHOOSE n \in 1..Len(pop) : pop[n].symbol = row.symbol /\ pop[n].name = row.name
    ELSE 0

\* The entities of the population that pass the intent's filters.
Passing == LET sat(s) == Satisfies(s, Intent.filters) IN SelectSeq(lastPop, sat)

\* The limit in force: the intent's when provided and positive, else 5.
LimitInForce ==
    IF Intent.limit # None /\ Val(Intent.limit) > 0 THEN Val(Intent.limit) ELSE DefaultLimit

\* C3: an explicit limit of zero or below is rejected; it is never replaced
\* by the default limit nor used as a slice bound.
C3_NonPositiveLimitRejected ==
    (Returned /\ Intent.limit # None /\ Val(Intent.limit) <= 0) => ~result.success

\* C4: without filters, invoke on a non-empty population succeeds and returns
\* the entities in descending marketCap order (absent as 0), truncated.
C4_NoFiltersFallback ==
    (Returned /\ Intent.filters = <<>> /\ lastPop # <<>>) =>
        /\ result.success
        /\ Len(EntityRows) = Min(LimitInForce, Len(lastPop))
        /\ \A i, j \in 1..Len(EntityRows) :
              i < j => or_zero(lastPop[IndexIn(lastPop, EntityRows[i])].marketCap)
                       >= or_zero(lastPop[IndexIn(lastPop, EntityRows[j])].marketCap)

\* C5: in every successful invoke the returned median row was computed over
\* the population that the call filtered.
C5_MedianOverSamePopulation ==
    Succeeded => lastMedPop = lastPop

\* The display metrics of the request: intent.metrics and the filtered metrics.
DisplayMetrics ==
    Range(Intent.metrics)
    \cup {m \in metric_keys_full :
            \E i \in 1..Len(Intent.filters) :
                Len(Intent.filters[i].key) >= 2 /\ MetricOf(Intent.filters[i].key) = <<m>>}

PresentValues(pop, m) ==
    LET has(s) == s[m] # None
        kept == SelectSeq(pop, has)
    IN  IF kept = <<>> THEN <<>> ELSE [i \in 1..Len(kept) |-> Val(kept[i][m])]

\* C6: the aggregate row of every successful invoke holds the population
\* median of each display metric of that request that has a present value.
C6_RowHoldsDisplayMedians ==
    Succeeded =>
        \A m \in DisplayMetrics \cap metric_keys_full :
            PresentValues(lastPop, m) # <<>> =>
                /\ m \in DOMAIN LastRow
                /\ LastRow[m] = Some(median_round2(PresentValues(lastPop, m)))

\* C7: when filtering removes every entity of a non-empty population the
\* result is unsuccessful and empty: no aggregate row is returned.
C7_NoMatchUnsuccessful ==
    (/\ Returned
     /\ lastPop # <<>>
     /\ Intent.filters # <<>>
     /\ WellFormed(Intent.filters)
     /\ Passing = <<>>) =>
        /\ ~result.success
        /\ result.results = <<>>

\* C8: the entity rows of a successful result ascend in the metric of the
\* intent's first filter key, and rows with equal values keep their relative
\* order from the population.
C8_AscendingStable ==
    Succeeded =>
        LET metric == MetricOf(Intent.filters[1].key)
            at(i) == IndexIn(lastPop, EntityRows[i])
            value(i) == ValueOf(lastPop[at(i)], metric)
        IN  /\ \A i \in 1..Len(EntityRows) : at(i) # 0 /\ value(i) # None
            /\ \A i, j \in 1..Len(EntityRows) :
                  i < j => /\ Val(value(i)) <= Val(value(j))
                           /\ (Val(value(i)) = Val(value(j)) => at(i) < at(j))

\* C8 witness: five rows taken from a population whose order is not the
\* sorted one, with ties and with strict steps.
C8_Witness ==
    /\ Succeeded
    /\ Len(EntityRows) >= 4
    /\ EntityRows[1].symbol = "DDD"
    /\ EntityRows[2].symbol = "EEE"
    /\ EntityRows[Len(EntityRows)].symbol = "AAA"
    /\ Intent.filters[1].key = <<"peRatio", "gt">>

\* C9: a successful result has min(L, number of passing entities) entity rows
\* and then one aggregate row, L being the limit in force.
C9_RowCount ==
    Succeeded =>
        /\ Len(result.results) = Min(LimitInForce, Len(Passing)) + 1
        /\ result.after_filters = Min(LimitInForce, Len(Passing))

\* C10: a successful result ends with exactly one row carrying the sentinel
\* symbol "Sector" and name "Median"; the rows before it are entities of the
\* population and none of them carries the sentinel values.
C10_SentinelRowLast ==
    Succeeded =>
        /\ Len(result.results) >= 1
        /\ IsSentinel(LastRow)
        /\ \A i \in 1..Len(EntityRows) :
              /\ ~IsSentinel(EntityRows[i])
              /\ IndexIn(lastPop, EntityRows[i]) # 0

\* C10 witness: entity rows followed by the median row that the cache holds.
C10_Witness ==
    /\ Succeeded
    /\ Len(EntityRows) >= 2
    /\ IsSentinel(LastRow)
    /\ lastMedPop # <<>>
    /\ cache[Intent.sector]["medians"] = LastRow

(***************************************************************************)
(* The screening scenario: ten "Information Technology" stocks whose       *)
(* peRatio values are 10, 12, ..., 28, screened with {peRatio_lt: 20}      *)
(***************************************************************************)
ScenarioSector == "Information Technology"

ScenarioSymbols ==
    <<"S10", "S12", "S14", "S16", "S18", "S20", "S22", "S24", "S26", "S28">>

ScenarioRatios == <<10, 12, 14, 16, 18, 20, 22, 24, 26, 28>>

\* The same ten constituents at an earlier market snapshot.
EarlierRatios == <<12, 14, 16, 18, 20, 22, 24, 26, 28, 30>>

ScenarioPopulation(ratios) ==
    [i \in 1..Len(ratios) |->
        StockData(ScenarioSymbols[i], ScenarioSymbols[i], ScenarioSector,
                  U(1), U(ratios[i]), N)]

ScenarioFilters == << Item(<<"peRatio", "lt">>, 20 * Scale) >>

ScenarioIntents ==
    [sector : {ScenarioSector},
     metrics : {<<"peRatio">>, <<"price">>},
     filters : {ScenarioFilters,
                << Item(<<"peRatio", "gt">>, 20 * Scale) >>,
                << Item(<<"price", "lt">>, 20 * Scale) >>},
     limit : Limits]

ScenarioInputs == {[intent |-> Some(i), query |-> "q"] : i \in ScenarioIntents}

\* What fetch_multiple returns when the call reaches line 258.
ScenarioFetchOutcomes(c, inp) ==
    IF ScenarioSector \in DOMAIN c /\ "stocks" \in DOMAIN c[ScenarioSector]
    THEN {<<>>}
    ELSE {<<>>, ScenarioPopulation(ScenarioRatios), ScenarioPopulation(EarlierRatios)}

InitScenario ==
    /\ cache = EmptyDict
    /\ input = NoCall
    /\ result = NoResult
    /\ pc = "idle"
    /\ lastPop = <<>>
    /\ lastMedPop = <<>>
    /\ lastLists = NoLists
    /\ medSrc = [s \in {ScenarioSector} |-> <<>>]
    /\ fetchLog = NoFetches
    /\ filt_stocks = <<>>
    /\ filt_filters = <<>>
    /\ filt_out = [raised |-> FALSE, list |-> <<>>, same |-> FALSE]
    /\ filt_again = [raised |-> FALSE, list |-> <<>>, same |-> FALSE]
    /\ AuxIdle

\* A call of invoke with a scenario intent, from its entry to its return.
InvokeScenario ==
    /\ pc = "idle"
    /\ \E inp \in ScenarioInputs :
        \E fetched \in ScenarioFetchOutcomes(cache, inp) :
            \E r \in {invoke(cache, inp, fetched)} :
                /\ cache' = r.cache
                /\ input' = inp
                /\ result' = r.ret
                /\ pc' = "returned"
                /\ lastPop' = r.stocks
                /\ lastLists' = r.lists
                /\ lastMedPop' = IF r.medians = "computed" THEN r.stocks
                                 ELSE IF r.medians = "cached"
                                 THEN medSrc[ScenarioSector]
                                 ELSE <<>>
                /\ medSrc' = IF r.medians = "computed"
                             THEN [medSrc EXCEPT ![ScenarioSector] = r.stocks]
                             ELSE medSrc
                /\ fetchLog' = log_fetch(fetchLog, inp, r)
                /\ UNCHANGED filterVars
                /\ UNCHANGED auxVars

NextScenario == InvokeScenario \/ NextRequest

SpecScenario == InitScenario /\ [][NextScenario]_vars

\* C11: screening the ten-stock population with {peRatio_lt: 20} returns the
\* five stocks with peRatio 10, 12, 14, 16, 18 in that order, and the median
\* row carries 19.0, the peRatio median of all ten stocks.
C11_ScenarioResult ==
    (/\ Returned
     /\ lastPop = ScenarioPopulation(ScenarioRatios)
     /\ Intent.filters = ScenarioFilters
     /\ Intent.limit = None) =>
        /\ result.success
        /\ Len(EntityRows) = 5
        /\ \A i \in 1..Len(EntityRows) :
              /\ EntityRows[i].symbol = ScenarioSymbols[i]
              /\ EntityRows[i].peRatio = U(ScenarioRatios[i])
        /\ "peRatio" \in DOMAIN LastRow
        /\ LastRow.peRatio = Some(19 * Scale)

(***************************************************************************)
(* The median computation of lines 310-322 as a function: every stock list *)
(* and display metric set within the bounds                                *)
(***************************************************************************)
MetricKeySets == SUBSET {"price", "peRatio", "marketCap", "volume"}

InitMedians ==
    /\ cache = EmptyDict
    /\ input = NoCall
    /\ result = NoResult
    /\ pc = "idle"
    /\ lastPop = <<>>
    /\ lastMedPop = <<>>
    /\ lastLists = NoLists
    /\ medSrc = [s \in Sectors |-> <<>>]
    /\ fetchLog = NoFetches
    /\ filt_stocks = <<>>
    /\ filt_filters = <<>>
    /\ filt_out = [raised |-> FALSE, list |-> <<>>, same |-> FALSE]
    /\ filt_again = [raised |-> FALSE, list |-> <<>>, same |-> FALSE]
    /\ med_stocks \in FilterStocks \ {<<>>}
    /\ med_keys \in MetricKeySets
    /\ med_out = NoMedians
    /\ IntentIdle
    /\ WfIdle
    /\ ExtIdle

\* Lines 310-322 for a non-empty list `stocks`.
ComputeMedians ==
    /\ pc = "idle"
    /\ pc' = "medians"
    /\ med_out' = [done |-> TRUE,
                   medians |-> compute_medians(med_stocks),
                   row |-> make_sector_medians(med_stocks, "Energy", med_keys)]
    /\ UNCHANGED <<agentVars, filterVars, med_stocks, med_keys, intentVars, wfVars, extVars>>

NextMedians == ComputeMedians

SpecMedians == InitMedians /\ [][NextMedians]_vars

\* C12: a metric without a present value anywhere in the population has no
\* entry in the computed medians, and the median row reports no number for
\* it (never 0).
C12_EmptyMedianOmitted ==
    med_out.done =>
        \A m \in metric_keys_full :
            PresentValues(med_stocks, m) = <<>> =>
                /\ m \notin DOMAIN med_out.medians
                /\ m \in med_keys => med_out.row[m] = None

\* C12 witness: a population with prices and without any marketCap; both
\* metrics are displayed.
C12_Witness ==
    /\ med_out.done
    /\ Len(med_stocks) = 2
    /\ PresentValues(med_stocks, "marketCap") = <<>>
    /\ {"price", "marketCap"} \subseteq med_keys
    /\ "price" \in DOMAIN med_out.medians
    /\ med_out.row["price"] # None

\* C13: every entity row of a successful result has a field for the metric
\* of every filter key, listed in intent.metrics or not; its fields are the
\* identification fields and the stock fields among intent.metrics and the
\* filtered metrics.
C13_FilterMetricsShown ==
    Succeeded =>
        \A n \in 1..Len(EntityRows) :
            /\ \A i \in 1..Len(Intent.filters) :
                  /\ Len(MetricOf(Intent.filters[i].key)) = 1
                  /\ MetricOf(Intent.filters[i].key)[1] \in DOMAIN EntityRows[n]
            /\ DOMAIN EntityRows[n]
                  = {"symbol", "name", "sector"} \cup (DisplayMetrics \cap metric_keys_full)

\* C13 witness: rows of a request that filters on peRatio and price and
\* lists only peRatio and volume.
C13_Witness ==
    /\ Succeeded
    /\ Len(EntityRows) >= 2
    /\ Intent.metrics = <<"peRatio", "volume">>
    /\ Len(Intent.filters) = 2
    /\ Intent.filters[2].key = <<"price", "lt">>
    /\ "price" \in DOMAIN EntityRows[1]
    /\ "volume" \notin DOMAIN EntityRows[1]

\* C14: a successful result reports as total_found the size of the sector's
\* population and as after_filters the number of entity rows it returns.
C14_Counts ==
    Succeeded =>
        /\ result.total_found = Len(lastPop)
        /\ result.after_filters = Len(EntityRows)

\* C14 witness: two rows returned out of a population of seven.
C14_Witness ==
    /\ Succeeded
    /\ Len(lastPop) = 7
    /\ Len(EntityRows) = 2
    /\ result.total_found = 7
    /\ result.after_filters = 2

\* C15: applying the filters to the list that apply_filters returned gives
\* that list again (and a raised exception stays raised).
C15_Idempotent ==
    pc = "refiltered" => filt_again = filt_out

\* C15 witness: a first application that removed one of two stocks, and a
\* second application that returned the remaining one.
C15_Witness ==
    /\ pc = "refiltered"
    /\ Len(filt_stocks) = 2
    /\ ~filt_out.raised
    /\ Len(filt_out.list) = 1
    /\ filt_again.list = filt_out.list

\* C15 witness of the full case: both stocks pass, twice.
C15_WitnessAll ==
    /\ pc = "refiltered"
    /\ Len(filt_stocks) = 2
    /\ filt_filters # <<>>
    /\ filt_stocks[1] # filt_stocks[2]
    /\ filt_again.list = filt_stocks

\* The stocks of sub are stocks of full, in the order they have in full.
InOrderOf(sub, full) ==
    /\ \A i \in 1..Len(sub) :
          IndexIn(full, sub[i]) # 0 /\ full[IndexIn(full, sub[i])] = sub[i]
    /\ \A i, j \in 1..Len(sub) : i < j => IndexIn(full, sub[i]) < IndexIn(full, sub[j])

\* C16: the list apply_filters returns in a call holds the surviving stocks,
\* unchanged, in their population order, and after the sort and the slice
\* the population list that the sector cache holds is what it was: same
\* stocks, same order, same length.
C16_PopulationUntouched ==
    (Returned /\ lastLists.ran) =>
        /\ InOrderOf(lastLists.filtered, lastPop)
        /\ lastLists.held = lastPop

\* C16 witness: every stock of a population of three passes and the sort
\* reorders them in the returned rows, the population keeping its order.
C16_Witness ==
    /\ Succeeded
    /\ Len(lastPop) = 3
    /\ lastLists.filtered = lastPop
    /\ Len(EntityRows) = 3
    /\ EntityRows[1].symbol = lastPop[2].symbol
    /\ lastLists.held = lastPop

(***************************************************************************)
(* Intent resolution (IntentParserAgent.invoke): the merge of the intent   *)
(* parsed from the query with the previous turn's intent, and the sector   *)
(* normalization.  A raw sector string is the sequence of its characters.  *)
(***************************************************************************)
AgentIdle ==
    /\ cache = EmptyDict
    /\ input = NoCall
    /\ result = NoResult
    /\ lastPop = <<>>
    /\ lastMedPop = <<>>
    /\ lastLists = NoLists
    /\ medSrc = [s \in Sectors |-> <<>>]
    /\ fetchLog = NoFetches

FilterIdle ==
    /\ filt_stocks = <<>>
    /\ filt_filters = <<>>
    /\ filt_out = [raised |-> FALSE, list |-> <<>>, same |-> FALSE]
    /\ filt_again = [raised |-> FALSE, list |-> <<>>, same |-> FALSE]

\* The two metrics every resolved intent carries.
BaselineMetrics == <<"price", "peRatio">>

\* The list a followed by the elements of b that a lacks.
union_dedupe(a, b) ==
    LET new(x) == x \notin Range(a) IN a \o SelectSeq(b, new)

add_baseline(metrics) == union_dedupe(metrics, BaselineMetrics)

\* A mutation of resolve_intent: the context is never consulted.
resolve_intent_ignoring_context(parsed, context) ==
    [intent |-> [sector |-> parsed.sector, limit |-> parsed.limit,
                 metrics |-> add_baseline(parsed.metrics), filters |-> parsed.filters],
     parsed_after |-> parsed, context_after |-> context]

\* A mutation of resolve_intent: a supplied context is merged whether or not
\* the parsed intent has filters of its own.
resolve_intent_always_merging(parsed, context) ==
    LET base == [sector |-> parsed.sector, limit |-> parsed.limit,
                 metrics |-> add_baseline(parsed.metrics), filters |-> parsed.filters]
    IN  [intent |-> IF context # None /\ Val(context).filters # <<>>
                    THEN [base EXCEPT
                            !.filters = Val(context).filters,
                            !.limit = IF parsed.limit = None THEN Val(context).limit
                                      ELSE parsed.limit,
                            !.metrics = union_dedupe(base.metrics, Val(context).metrics)]
                    ELSE base,
         parsed_after |-> parsed, context_after |-> context]

\* The merged intent, a new value, with the two arguments as the call
\* leaves them.
resolve_intent(parsed, context) ==
    LET base == [sector |-> parsed.sector, limit |-> parsed.limit,
                 metrics |-> add_baseline(parsed.metrics), filters |-> parsed.filters]
        follow_up == parsed.filters = <<>> /\ context # None /\ Val(context).filters # <<>>
    IN  [intent |-> IF follow_up
                    THEN [base EXCEPT
                            !.filters = Val(context).filters,
                            !.limit = IF parsed.limit = None THEN Val(context).limit
                                      ELSE parsed.limit,
                            !.metrics = union_dedupe(base.metrics, Val(context).metrics)]
                    ELSE base,
         parsed_after |-> parsed, context_after |-> context]

lower(ch) ==
    CASE ch = "C" -> "c" [] ch = "E" -> "e" [] ch = "H" -> "h" [] ch = "I" -> "i"
      [] ch = "L" -> "l" [] ch = "R" -> "r" [] ch = "S" -> "s" [] ch = "T" -> "t"
      [] OTHER -> ch

\* A mutation of normalize: the case of the letters is kept.
normalize_keeping_case(raw) ==
    [i \in 1..Len(raw) |-> IF raw[i] = " " THEN "_" ELSE raw[i]]

\* Lower-case, whitespace to underscore.
normalize(raw) ==
    [i \in 1..Len(raw) |-> IF raw[i] = " " THEN "_" ELSE lower(raw[i])]

\* The alias table: <<normalized alias, canonical sector>>.
AliasTable ==
    { << <<"t", "e", "c", "h">>, "technology" >>,
      << <<"t", "e", "c", "h", "n", "o", "l", "o", "g", "y">>, "technology" >>,
      << <<"r", "e", "i", "t", "s">>, "real_estate" >>,
      << <<"r", "e", "a", "l", "_", "e", "s", "t", "a", "t", "e">>, "real_estate" >>,
      << <<"h", "e", "a", "l", "t", "h", "c", "a", "r", "e">>, "healthcare" >> }

ValidSectors == {a[2] : a \in AliasTable}

normalize_sector(raw) ==
    LET hits == {a \in AliasTable : a[1] = normalize(raw)}
    IN  IF hits = {} THEN None ELSE Some((CHOOSE a \in hits : TRUE)[2])

MissingSectorMessage == "Missing sector in query. Please specify a valid sector."
InvalidSectorMessage == "is not a valid sector."

\* IntentParserAgent.invoke after the query is parsed: either the resolved
\* intent or a clarification.
parser_invoke(parsed, context) ==
    LET r == resolve_intent(parsed, context)
        merged == r.intent
        frame == [done |-> TRUE, merged |-> merged,
                  parsed_after |-> r.parsed_after, context_after |-> r.context_after]
    IN  IF merged.sector = None
        THEN frame @@ [clarification_needed |-> TRUE, intent |-> None,
                       error |-> Some([text |-> MissingSectorMessage, named |-> None,
                                       valid_sectors |-> {}])]
        ELSE LET canonical == normalize_sector(Val(merged.sector))
             IN  IF canonical = None
                 THEN frame @@ [clarification_needed |-> TRUE, intent |-> None,
                                error |-> Some([text |-> InvalidSectorMessage,
                                                named |-> merged.sector,
                                                valid_sectors |-> ValidSectors])]
                 ELSE frame @@ [clarification_needed |-> FALSE,
                                intent |-> Some([merged EXCEPT !.sector = Val(canonical)]),
                                error |-> None]

\* Raw sector strings as the query parser can return them.
RawTech == <<"T", "e", "c", "h">>
RawTechLower == <<"t", "e", "c", "h">>
RawReits == <<"R", "E", "I", "T", "s">>
RawRealEstate == <<"R", "e", "a", "l", " ", "E", "s", "t", "a", "t", "e">>
RawHealthcare == <<"h", "e", "a", "l", "t", "h", "c", "a", "r", "e">>
RawLuxury == <<"l", "u", "x", "u", "r", "y">>
RawLuxuryCapital == <<"L", "u", "x", "u", "r", "y">>

RawSectors ==
    {RawTech, RawTechLower, RawReits, RawRealEstate, RawHealthcare, RawLuxury,
     RawLuxuryCapital}

PartialIntents ==
    [sector : {None} \cup {Some(raw) : raw \in RawSectors},
     limit : {None} \cup {Some(n) : n \in 1..MaxLimit},
     metrics : {<<>>, <<"price">>, <<"marketCap">>, <<"peRatio", "marketCap">>},
     filters : {<<>>, <<Item(<<"price", "lt">>, Scale)>>,
                <<Item(<<"peRatio", "gt">>, 0), Item(<<"price", "lt">>, Scale)>>}]

\* context_intent: absent on the first turn, then the intent of the previous
\* response.
Contexts ==
    {None}
    \cup {Some(c) : c \in [sector : {"technology"},
                           limit : {None, Some(MaxLimit + 1)},
                           metrics : {<<"price", "peRatio">>,
                                      <<"price", "peRatio", "dividendYield">>},
                           filters : {<<>>, <<Item(<<"dividendYield", "gt">>, 0)>>}]}

InitIntent ==
    /\ AgentIdle
    /\ FilterIdle
    /\ MedIdle
    /\ pc = "idle"
    /\ ri_parsed \in PartialIntents
    /\ ri_context \in Contexts
    /\ ri_out = NoOutcome
    /\ WfIdle
    /\ ExtIdle

ParserInvoke ==
    /\ pc = "idle"
    /\ pc' = "resolved"
    /\ ri_out' = parser_invoke(ri_parsed, ri_context)
    /\ UNCHANGED <<agentVars, filterVars, medVars, ri_parsed, ri_context, wfVars, extVars>>

NextIntent == ParserInvoke

SpecIntent == InitIntent /\ [][NextIntent]_vars

\* C17: for a parsed intent without filters and a context with filters, the
\* resolved intent has the context's filters, the context's limit when the
\* parsed intent has none, and metrics that include those of the parsed
\* intent, of the context and the two baseline metrics; the parsed intent
\* and the context are as they were.
C17_FollowUpAdoptsContext ==
    (/\ ri_out.done
     /\ ri_parsed.filters = <<>>
     /\ ri_context # None
     /\ Val(ri_context).filters # <<>>) =>
        /\ ri_out.merged.filters = Val(ri_context).filters
        /\ ri_parsed.limit = None => ri_out.merged.limit = Val(ri_context).limit
        /\ (Range(ri_parsed.metrics) \cup Range(Val(ri_context).metrics)
              \cup {"price", "peRatio"}) \subseteq Range(ri_out.merged.metrics)
        /\ ri_out.parsed_after = ri_parsed
        /\ ri_out.context_after = ri_context

\* C17 witness: a follow-up without filters and limit, listing marketCap,
\* after a turn that filtered on dividendYield.
C17_Witness ==
    /\ ri_out.done
    /\ ri_parsed.filters = <<>>
    /\ ri_parsed.limit = None
    /\ ri_parsed.metrics = <<"marketCap">>
    /\ ri_context # None
    /\ Val(ri_context).filters = <<Item(<<"dividendYield", "gt">>, 0)>>
    /\ Val(ri_context).limit # None
    /\ ri_out.merged.limit = Val(ri_context).limit
    /\ Range(ri_out.merged.metrics) = {"marketCap", "price", "peRatio", "dividendYield"}

\* C18: for a parsed intent with filters the context has no effect: filters
\* and limit are the parsed intent's, and the metrics are the parsed
\* intent's plus the two baseline metrics.
C18_FullRequestIgnoresContext ==
    (ri_out.done /\ ri_parsed.filters # <<>>) =>
        /\ ri_out.merged.filters = ri_parsed.filters
        /\ ri_out.merged.limit = ri_parsed.limit
        /\ Range(ri_out.merged.metrics) = Range(ri_parsed.metrics) \cup {"price", "peRatio"}

\* C18 witness: a request with filters and no limit, after a turn with
\* filters, a limit and a further metric.
C18_Witness ==
    /\ ri_out.done
    /\ ri_parsed.filters # <<>>
    /\ ri_parsed.limit = None
    /\ ri_parsed.metrics = <<"marketCap">>
    /\ ri_context # None
    /\ Val(ri_context).filters # <<>>
    /\ Val(ri_context).limit # None
    /\ "dividendYield" \in Range(Val(ri_context).metrics)
    /\ ri_out.merged.limit = None
    /\ Range(ri_out.merged.metrics) = {"marketCap", "price", "peRatio"}

\* The canonical sector each recognized raw string stands for.
ExpectedSector ==
    { <<RawTech, "technology">>, <<RawTechLower, "technology">>,
      <<RawReits, "real_estate">>, <<RawRealEstate, "real_estate">>,
      <<RawHealthcare, "healthcare">> }

\* C19: the outcome is an intent or a clarification, never both: no sector
\* gives the missing-sector clarification, an unrecognized sector gives a
\* clarification naming it and carrying the valid sectors, and a recognized
\* sector gives its canonical name in the intent.
C19_IntentOrClarification ==
    ri_out.done =>
        /\ (ri_out.intent # None) <=> ~ri_out.clarification_needed
        /\ (ri_out.error # None) <=> ri_out.clarification_needed
        /\ ri_parsed.sector = None =>
              /\ ri_out.clarification_needed
              /\ Val(ri_out.error).text = MissingSectorMessage
        /\ \A raw \in {RawLuxury, RawLuxuryCapital} :
              ri_parsed.sector = Some(raw) =>
                  /\ ri_out.clarification_needed
                  /\ Val(ri_out.error).text = InvalidSectorMessage
                  /\ Val(ri_out.error).named = Some(raw)
                  /\ Val(ri_out.error).valid_sectors
                        = {"technology", "real_estate", "healthcare"}
        /\ \A e \in ExpectedSector :
              ri_parsed.sector = Some(e[1]) =>
                  /\ ~ri_out.clarification_needed
                  /\ Val(ri_out.intent).sector = e[2]

\* C19 witness: "Real Estate" resolved to real_estate.
C19_Witness ==
    /\ ri_out.done
    /\ ri_parsed.sector = Some(RawRealEstate)
    /\ ~ri_out.clarification_needed
    /\ Val(ri_out.intent).sector = "real_estate"
    /\ ri_out.error = None

(***************************************************************************)
(* Supply-Chain-Orchestrator: the workflow graph of app/graph/workflow.py  *)
(* and its four agents.  A node returns a dict of updates, which replace   *)
(* the fields of the AgentState they name; the conditional edge of the     *)
(* node is then evaluated on the updated state.                            *)
(***************************************************************************)
apply_updates(state, updates) ==
    [k \in DOMAIN state |-> IF k \in DOMAIN updates THEN updates[k] ELSE state[k]]

\* `field: value` in the updates when cond holds.
entry_if(cond, field, value) ==
    IF cond THEN [k \in {field} |-> value] ELSE EmptyDict

Sum(seq) ==
    LET RECURSIVE upto(_)
        upto(n) == IF n = 0 THEN 0 ELSE seq[n] + upto(n - 1)
    IN  upto(Len(seq))

\* data_analyst_agent writing supplier_info whatever the supplier lookup reported.
data_analyst_agent_always_supplier(state, tools) ==
    entry_if(tools.product = "ok", "product_info", Some("product"))
    @@ [supplier_info |-> IF tools.supplier = "ok" THEN Some("suppliers") ELSE None]
    @@ entry_if(tools.historical = "ok", "historical_sales_data", <<"sale">>)
    @@ entry_if(tools.forecast.status = "ok", "baseline_forecast",
                Some([success |-> TRUE, forecast |-> tools.forecast.forecast,
                      total_predicted_demand |-> Sum(tools.forecast.forecast),
                      model_used |-> "exponential_smoothing"]))
    @@ (IF tools.forecast.status = "raise"
        THEN [errors |-> Append(state.errors, "Data Analyst error")]
        ELSE [current_step |-> "data_analysis_complete", errors |-> state.errors])

\* The updates data_analyst_agent returns.  tools tells what each tool
\* returned: success or not for the three database tools (they catch their
\* exceptions); for the forecast tool success with the daily predicted
\* demands, success = false, or an exception.
data_analyst_agent(state, tools) ==
    entry_if(tools.product = "ok", "product_info", Some("product"))
    @@ entry_if(tools.supplier = "ok", "supplier_info", Some("suppliers"))
    @@ entry_if(tools.historical = "ok", "historical_sales_data", <<"sale">>)
    @@ entry_if(tools.forecast.status = "ok", "baseline_forecast",
                Some([success |-> TRUE, forecast |-> tools.forecast.forecast,
                      total_predicted_demand |-> Sum(tools.forecast.forecast),
                      model_used |-> "exponential_smoothing"]))
    @@ (IF tools.forecast.status = "raise"
        THEN [errors |-> Append(state.errors, "Data Analyst error")]
        ELSE [current_step |-> "data_analysis_complete", errors |-> state.errors])

\* get_weather_data_raw: the days' demand factors, [] when the fetch failed.
get_weather_data_raw(fetch) == IF fetch.ok THEN fetch.days ELSE <<>>

\* get_average_demand_factor: the rounded average of its own fetch, 1.0
\* when that fetch failed or gave no day.
get_average_demand_factor(fetch) ==
    IF fetch.ok /\ fetch.days # <<>>
    THEN (2 * Sum(fetch.days) + Len(fetch.days)) \div (2 * Len(fetch.days))
    ELSE Scale

\* The updates weather_agent returns; each tool makes its own fetch.
weather_agent(state, first, second) ==
    [weather_forecast |-> get_weather_data_raw(first),
     average_demand_factor |-> get_average_demand_factor(second),
     current_step |-> "weather_analysis_complete",
     errors |-> state.errors]

\* The updates supply_commander_agent returns: a recommendation, or the
\* error of an exception (LLM call, JSON extraction).
supply_commander_agent(state, outcome) ==
    IF outcome = "ok"
    THEN [recommendation |-> Some("recommendation"),
          current_step |-> "decision_complete",
          errors |-> state.errors]
    ELSE [errors |-> Append(state.errors, "Supply Commander error")]

\* reporter_agent returning only its own message when it raises.
reporter_agent_own_error_only(state, outcome) ==
    IF outcome = "ok"
    THEN [executive_summary |-> "summary",
          current_step |-> "report_complete",
          errors |-> state.errors]
    ELSE [errors |-> <<"Reporter error">>]

\* The updates reporter_agent returns.
reporter_agent(state, outcome) ==
    IF outcome = "ok"
    THEN [executive_summary |-> "summary",
          current_step |-> "report_complete",
          errors |-> state.errors]
    ELSE [errors |-> Append(state.errors, "Reporter error")]

after_data_analyst_route(state) ==
    IF Len(state.weather_forecast) > 0 THEN "supply_commander" ELSE "weather"

after_weather_route(state) ==
    IF state.baseline_forecast # None THEN "supply_commander" ELSE "data_analyst"

\* What the tools of a node can return.
ForecastOutcomes ==
    { [status |-> "ok", forecast |-> <<2, 3>>],
      [status |-> "fail", forecast |-> <<>>],
      [status |-> "raise", forecast |-> <<>>] }

ToolOutcomes ==
    [product : {"ok", "fail"}, supplier : {"ok", "fail"}, historical : {"ok", "fail"},
     forecast : ForecastOutcomes]

WeatherFetches ==
    { [ok |-> FALSE, days |-> <<>>],
      [ok |-> TRUE, days |-> <<130>>],
      [ok |-> TRUE, days |-> <<90, 120>>] }

AgentOutcomes == {"ok", "raise"}

InitWorkflow ==
    /\ AgentIdle
    /\ FilterIdle
    /\ MedIdle
    /\ IntentIdle
    /\ pc = "idle"
    /\ wf_node = "data_analyst"
    /\ wf_state = create_initial_state
    /\ wf_steps = 0
    /\ wf_last = NoStep
    /\ ExtIdle

DataAnalyst ==
    /\ wf_node = "data_analyst"
    /\ wf_steps < MaxSteps
    /\ \E tools \in ToolOutcomes :
        \E updates \in {data_analyst_agent(wf_state, tools)} :
            /\ wf_state' = apply_updates(wf_state, updates)
            /\ wf_node' = after_data_analyst_route(apply_updates(wf_state, updates))
            /\ wf_last' = [node |-> "data_analyst", tools |-> <<tools>>, fetches |-> <<>>,
                           raised |-> tools.forecast.status = "raise",
                           received |-> wf_state.errors, updates |-> updates]
    /\ wf_steps' = wf_steps + 1
    /\ UNCHANGED <<pc, agentVars, filterVars, medVars, intentVars, extVars>>

Weather ==
    /\ wf_node = "weather"
    /\ wf_steps < MaxSteps
    /\ \E first \in WeatherFetches, second \in WeatherFetches :
        \E updates \in {weather_agent(wf_state, first, second)} :
            /\ wf_state' = apply_updates(wf_state, updates)
            /\ wf_node' = after_weather_route(apply_updates(wf_state, updates))
            /\ wf_last' = [node |-> "weather", tools |-> <<>>, fetches |-> <<first, second>>,
                           raised |-> FALSE, received |-> wf_state.errors,
                           updates |-> updates]
    /\ wf_steps' = wf_steps + 1
    /\ UNCHANGED <<pc, agentVars, filterVars, medVars, intentVars, extVars>>

SupplyCommander ==
    /\ wf_node = "supply_commander"
    /\ wf_steps < MaxSteps
    /\ \E outcome \in AgentOutcomes :
        \E updates \in {supply_commander_agent(wf_state, outcome)} :
            /\ wf_state' = apply_updates(wf_state, updates)
            /\ wf_last' = [node |-> "supply_commander", tools |-> <<>>, fetches |-> <<>>,
                           raised |-> outcome = "raise",
                           received |-> wf_state.errors, updates |-> updates]
    /\ wf_node' = "reporter"
    /\ wf_steps' = wf_steps + 1
    /\ UNCHANGED <<pc, agentVars, filterVars, medVars, intentVars, extVars>>

Reporter ==
    /\ wf_node = "reporter"
    /\ wf_steps < MaxSteps
    /\ \E outcome \in AgentOutcomes :
        \E updates \in {reporter_agent(wf_state, outcome)} :
            /\ wf_state' = apply_updates(wf_state, updates)
            /\ wf_last' = [node |-> "reporter", tools |-> <<>>, fetches |-> <<>>,
                           raised |-> outcome = "raise",
                           received |-> wf_state.errors, updates |-> updates]
    /\ wf_node' = "END"
    /\ wf_steps' = wf_steps + 1
    /\ UNCHANGED <<pc, agentVars, filterVars, medVars, intentVars, extVars>>

\* The graph is invoked without a config, so the run is cut off with a
\* GraphRecursionError once the recursion limit of node executions is used
\* up before END is reached.  MaxSteps stands for that limit.
RecursionLimit ==
    /\ wf_node \notin {"END", "GraphRecursionError"}
    /\ wf_steps = MaxSteps
    /\ wf_node' = "GraphRecursionError"
    /\ UNCHANGED <<wf_state, wf_steps, wf_last>>
    /\ UNCHANGED <<pc, agentVars, filterVars, medVars, intentVars, extVars>>

NextWorkflow == DataAnalyst \/ Weather \/ SupplyCommander \/ Reporter \/ RecursionLimit

SpecWorkflow == InitWorkflow /\ [][NextWorkflow]_vars

\* C20: whenever supply_commander is the node about to run, both upstream
\* agents are done: baseline_forecast is set and weather_forecast is
\* non-empty.
C20_BothDoneBeforeCommander ==
    wf_node = "supply_commander" =>
        /\ wf_state.baseline_forecast # None
        /\ wf_state.weather_forecast # <<>>

\* C21: every run of the workflow ends at END, never cut off by the
\* recursion limit while data_analyst and weather keep handing the run back
\* to each other.
C21_RunReachesEnd == wf_node # "GraphRecursionError"

C26_GracefulDegradation ==
    (wf_last.node = "data_analyst" /\ ~wf_last.raised) =>
        LET tools == Val(wf_last.tools)
            updates == wf_last.updates
        IN  /\ ("product_info" \in DOMAIN updates) <=> (tools.product = "ok")
            /\ ("supplier_info" \in DOMAIN updates) <=> (tools.supplier = "ok")
            /\ ("historical_sales_data" \in DOMAIN updates) <=> (tools.historical = "ok")
            /\ ("baseline_forecast" \in DOMAIN updates) <=> (tools.forecast.status = "ok")
            /\ updates.errors = wf_last.received
            /\ updates.current_step = "data_analysis_complete"
            /\ tools.forecast.status = "ok" =>
                  /\ Val(updates.baseline_forecast).forecast = tools.forecast.forecast
                  /\ Val(updates.baseline_forecast).total_predicted_demand
                        = Sum(tools.forecast.forecast)

\* C26 witness: the supplier lookup failed and the other three tools
\* succeeded, with a forecast of 2 and 3 units.
C26_Witness ==
    /\ wf_last.node = "data_analyst"
    /\ Val(wf_last.tools).supplier = "fail"
    /\ Val(wf_last.tools).product = "ok"
    /\ Val(wf_last.tools).historical = "ok"
    /\ Val(wf_last.tools).forecast.status = "ok"
    /\ DOMAIN wf_last.updates
          = {"product_info", "historical_sales_data", "baseline_forecast",
             "current_step", "errors"}
    /\ Val(wf_last.updates.baseline_forecast).total_predicted_demand = 5
    /\ wf_last.updates.errors = <<>>

\* C30: after weather_agent ran, an empty weather_forecast goes with the
\* neutral average_demand_factor 1.0.
C30_SameForecast ==
    wf_last.node = "weather" =>
        (wf_state.weather_forecast = <<>> => wf_state.average_demand_factor = Scale)

\* C22: on one agent the population of a sector is fetched at most once:
\* no call fetches a sector that an earlier call has fetched.
C22_FetchedAtMostOnce == ~fetchLog.again

\* C27: invoke never raises: every call returns a dict with a boolean
\* 'success' and a list 'results', and the list is empty whenever success is
\* false.
C27_NeverRaises ==
    pc = "returned" =>
        /\ {"success", "results"} \subseteq DOMAIN result
        /\ result.success \in BOOLEAN
        /\ DOMAIN result.results = 1..Len(result.results)
        /\ ~result.success => result.results = <<>>

\* C27 witness: a call whose filter key has no underscore, on a fetched
\* population, returned the dict of the except branch.
C27_Witness ==
    /\ pc = "returned"
    /\ input.intent # None
    /\ Len(Val(input.intent).filters) = 1
    /\ Val(input.intent).filters[1].key = <<"price">>
    /\ lastPop # <<>>
    /\ result = [success |-> FALSE, error |-> "ValueError", results |-> <<>>]

\* C28: once the fetch of a sector has returned [], every later call for
\* that sector returns success = false with 'No data fetched' and makes no
\* fetch; the cache is left as it is.
C28_EmptyStaysCached ==
    [][(/\ pc = "idle"
        /\ pc' = "returned"
        /\ input'.intent # None
        /\ Val(input'.intent).sector \in fetchLog.emptied)
       => /\ ~fetchLog'.made
          /\ ~result'.success
          /\ result'.error = "No data fetched"
          /\ result'.results = <<>>
          /\ cache' = cache]_vars

\* C28 witness: a call for Energy, whose earlier fetch returned [] although
\* the data source has constituents for it, answered from the cache.
C28_Witness ==
    /\ pc = "returned"
    /\ input.intent # None
    /\ Val(input.intent).sector = "Energy"
    /\ "Energy" \in fetchLog.emptied
    /\ ~fetchLog.made
    /\ cache["Energy"]["stocks"] = <<>>
    /\ result.error = "No data fetched"

(***************************************************************************)
(* StockDataFetcher.fetch_multiple: the calling thread submits one         *)
(* fetch_single per stock to a pool of worker threads, then takes the      *)
(* futures in the order they complete.  The steps of the workers and of    *)
(* the calling thread interleave freely.                                   *)
(***************************************************************************)
\* What yfinance gives a worker for a symbol: an info dict with 'symbol',
\* an info dict without it, or an exception.
InfoOutcomes == {"info", "no_symbol", "raise"}

\* fetch_single: the StockData of the symbol, None when the info is unusable
\* or anything raised.
fetch_single(symbol, info) ==
    IF info = "info" THEN Some(symbol) ELSE None

\* A mutation of the collecting loop: a failed fetch empties the list.
collect_aborting(results, stock) ==
    IF stock # None THEN Append(results, Val(stock)) ELSE <<>>

\* The body of the as_completed loop: `if stock: results.append(stock)`.
collect(results, stock) ==
    IF stock # None THEN Append(results, Val(stock)) ELSE results

Future(state, value) == [state |-> state, result |-> value]

Running == {i \in 1..Len(fm_futures) : fm_futures[i].state = "running"}

\* The stock lists of a sector: distinct symbols, in the order of the table.
StockLists == {SubSeq(Symbols, 1, n) : n \in 0..MaxSymbols}

InitFetch ==
    /\ AgentIdle
    /\ FilterIdle
    /\ MedIdle
    /\ IntentIdle
    /\ WfIdle
    /\ ChainIdle
    /\ pc = "idle"
    /\ fm_pc = "submit"
    /\ fm_stock_list \in StockLists
    /\ fm_futures = <<>>
    /\ fm_yielded = {}
    /\ fm_results = <<>>

fmFrame == <<pc, agentVars, filterVars, medVars, intentVars, wfVars, chainVars>>

\* executor.submit for the next stock of the list; after the last one the
\* calling thread enters the as_completed loop.
Submit ==
    /\ fm_pc = "submit"
    /\ IF Len(fm_futures) < Len(fm_stock_list)
       THEN /\ fm_futures' = Append(fm_futures, Future("queued", None))
            /\ fm_pc' = "submit"
       ELSE /\ fm_pc' = "as_completed"
            /\ UNCHANGED fm_futures
    /\ UNCHANGED <<fm_stock_list, fm_yielded, fm_results, fmFrame>>

\* A free worker thread takes a queued call of fetch_single.
WorkerStart ==
    /\ Cardinality(Running) < MaxWorkers
    /\ \E i \in 1..Len(fm_futures) :
        /\ fm_futures[i].state = "queued"
        /\ fm_futures' = [fm_futures EXCEPT ![i] = Future("running", None)]
    /\ UNCHANGED <<fm_pc, fm_stock_list, fm_yielded, fm_results, fmFrame>>

\* A worker's fetch_single returns; its future is done.
WorkerFinish ==
    /\ \E i \in Running, info \in InfoOutcomes :
        fm_futures' = [fm_futures EXCEPT
                          ![i] = Future("done", fetch_single(fm_stock_list[i], info))]
    /\ UNCHANGED <<fm_pc, fm_stock_list, fm_yielded, fm_results, fmFrame>>

\* as_completed yields a future that is done and was not yielded before.
AsCompleted ==
    /\ fm_pc = "as_completed"
    /\ \E i \in 1..Len(fm_futures) :
        /\ i \notin fm_yielded
        /\ fm_futures[i].state = "done"
        /\ fm_yielded' = fm_yielded \cup {i}
        /\ fm_results' = collect(fm_results, fm_futures[i].result)
    /\ UNCHANGED <<fm_pc, fm_stock_list, fm_futures, fmFrame>>

\* Every future was yielded: the loop ends, the `with` block shuts the pool
\* down and fetch_multiple returns results.
Return ==
    /\ fm_pc = "as_completed"
    /\ fm_yielded = 1..Len(fm_futures)
    /\ fm_pc' = "returned"
    /\ UNCHANGED <<fm_stock_list, fm_futures, fm_yielded, fm_results, fmFrame>>

NextFetch == Submit \/ WorkerStart \/ WorkerFinish \/ AsCompleted \/ Return

SpecFetch == InitFetch /\ [][NextFetch]_vars

Succeeded_fetches ==
    {i \in 1..Len(fm_futures) : fm_futures[i].state = "done" /\ fm_futures[i].result # None}

\* C24: when fetch_multiple returns, every stock of the list was submitted
\* and its fetch is done, and results holds exactly one entry for each
\* symbol whose fetch succeeded and none for the others.
C24_AllFetchesCollected ==
    fm_pc = "returned" =>
        /\ Len(fm_futures) = Len(fm_stock_list)
        /\ \A i \in 1..Len(fm_futures) : fm_futures[i].state = "done"
        /\ Range(fm_results) = {fm_stock_list[i] : i \in Succeeded_fetches}
        /\ Len(fm_results) = Cardinality(Succeeded_fetches)

\* C24 witness: three symbols, the fetch of the second failed, and the two
\* others were collected in the reverse of the submission order.
C24_Witness ==
    /\ fm_pc = "returned"
    /\ Len(fm_stock_list) = 3
    /\ fm_futures[2].result = None
    /\ fm_results = <<fm_stock_list[3], fm_stock_list[1]>>

(***************************************************************************)
(* chains/inter_agent_chain.py: parser_step | clarification_router |       *)
(* processor step | explainer step.  The dict a step returns is the input  *)
(* of the next one.  A dict is a function on its keys.                     *)
(***************************************************************************)
DefaultClarification == "Clarification required."
NotEnoughData == "Not enough data to explain."

\* dict.get(key) with a default.
get(d, key, default) == IF key \in DOMAIN d THEN d[key] ELSE default

\* A mutation of the router: the parser's error is replaced by the default.
clarification_router_default_error(parsed) ==
    IF get(parsed, "clarification_needed", FALSE)
    THEN [short_circuit |-> TRUE,
          error |-> DefaultClarification,
          parsed |-> get(parsed, "parsed", EmptyDict),
          raw_response |-> get(parsed, "raw_response", None)]
    ELSE [intent |-> parsed["intent"], query |-> parsed["query"]]

\* Step 2: the short-circuit record, or the input of the data processor.
clarification_router(parsed) ==
    IF get(parsed, "clarification_needed", FALSE)
    THEN [short_circuit |-> TRUE,
          error |-> get(parsed, "error", DefaultClarification),
          parsed |-> get(parsed, "parsed", EmptyDict),
          raw_response |-> get(parsed, "raw_response", None)]
    ELSE [intent |-> parsed["intent"], query |-> parsed["query"]]

\* A mutation of run_data_processor: the error of a failed result is kept.
run_data_processor_keeping_error(data, returned) ==
    (IF returned.success THEN EmptyDict ELSE [error |-> returned.error])
    @@ [results |-> returned.results] @@ data

\* run_data_processor: {**data, "results": result["results"]}, where returned
\* is what agent.invoke(data) returned.
run_data_processor(data, returned) ==
    [results |-> returned.results] @@ data

\* run_explainer: {**data, "explanation": explanation}.
run_explainer(data, explanation) ==
    [explanation |-> explanation] @@ data

\* ExplanationAgent.invoke: the text it returns and whether it called the
\* language model; llm is what that call does.
explanation_invoke(inputs, llm) ==
    IF "error" \in DOMAIN inputs
    THEN [llm |-> FALSE, text |-> "Error in inputs"]
    ELSE IF Len(inputs["results"]) < 2
    THEN [llm |-> FALSE, text |-> NotEnoughData]
    ELSE IF llm = "ok"
    THEN [llm |-> TRUE, text |-> "response.content"]
    ELSE [llm |-> TRUE, text |-> "Failed to generate explanation"]

\* x.get("short_circuit")
short_circuit(x) == get(x, "short_circuit", FALSE)

\* The intents the parser can hand to the chain.
ChainIntents ==
    [sector : Sectors, metrics : MetricLists,
     filters : {<<>>, <<Item(<<"price">>, Scale)>>}
               \cup {<<Item(<<"price", "lt">>, t)>> : t \in Thresholds},
     limit : {None, Some(1)}]

\* What intent_parser.invoke returns: a clarification, with or without an
\* error message, or an intent with the query.
ParserOutcomes ==
    { [clarification_needed |-> TRUE, error |-> MissingSectorMessage, query |-> "q"],
      [clarification_needed |-> TRUE, query |-> "q"] }
    \cup { [clarification_needed |-> FALSE, intent |-> Some(i), query |-> "q"] :
              i \in ChainIntents }

LlmOutcomes == {"ok", "raise"}

InitChain ==
    /\ AgentIdle
    /\ FilterIdle
    /\ MedIdle
    /\ IntentIdle
    /\ WfIdle
    /\ FmIdle
    /\ pc = "idle"
    /\ ch_pc = "parser_step"
    /\ ch_parsed = <<>>
    /\ ch_data = EmptyDict
    /\ ch_calls = <<>>
    /\ ch_seen = NoSeen

chFrame == <<pc, agentVars, filterVars, medVars, intentVars, wfVars, fmVars>>

\* Step 1: the intent parser is invoked with the request.
ParserStep ==
    /\ ch_pc = "parser_step"
    /\ \E parsed \in ParserOutcomes :
        /\ ch_parsed' = Some(parsed)
        /\ ch_data' = parsed
    /\ ch_calls' = Append(ch_calls, "intent_parser")
    /\ ch_pc' = "clarification_router"
    /\ UNCHANGED <<ch_seen, chFrame>>

ClarificationRouter ==
    /\ ch_pc = "clarification_router"
    /\ ch_data' = clarification_router(ch_data)
    /\ ch_pc' = "processor_step"
    /\ UNCHANGED <<ch_parsed, ch_calls, ch_seen, chFrame>>

\* The third step: x if x.get("short_circuit") else processor_step.invoke(x).
\* The data processor answers as DataProcessorAgent.invoke does on an agent
\* that has not fetched the sector yet.
ProcessorStep ==
    /\ ch_pc = "processor_step"
    /\ IF short_circuit(ch_data)
       THEN UNCHANGED <<ch_data, ch_calls, ch_seen>>
       ELSE \E fetched \in Populations(Val(ch_data["intent"]).sector) :
              \E r \in {invoke(EmptyDict, ch_data, fetched)} :
                  /\ ch_data' = run_data_processor(ch_data, r.ret)
                  /\ ch_calls' = Append(ch_calls, "data_processor")
                  /\ ch_seen' = [ch_seen EXCEPT !.processor = Some(r.ret)]
    /\ ch_pc' = "explainer_step"
    /\ UNCHANGED <<ch_parsed, chFrame>>

\* The fourth step: explainer_step.invoke(x) if not x.get("short_circuit")
\* and "results" in x else x.
ExplainerStep ==
    /\ ch_pc = "explainer_step"
    /\ IF ~short_circuit(ch_data) /\ "results" \in DOMAIN ch_data
       THEN \E llm \in LlmOutcomes :
              \E e \in {explanation_invoke(ch_data, llm)} :
                  /\ ch_data' = run_explainer(ch_data, e.text)
                  /\ ch_calls' = ch_calls \o <<"explanation_agent">>
                                    \o (IF e.llm THEN <<"llm">> ELSE <<>>)
                  /\ ch_seen' = [ch_seen EXCEPT !.explainer = Some(ch_data)]
       ELSE UNCHANGED <<ch_data, ch_calls, ch_seen>>
    /\ ch_pc' = "done"
    /\ UNCHANGED <<ch_parsed, chFrame>>

NextChain == ParserStep \/ ClarificationRouter \/ ProcessorStep \/ ExplainerStep

SpecChain == InitChain /\ [][NextChain]_vars

Count(seq, x) == Cardinality({i \in 1..Len(seq) : seq[i] = x})

ClarificationNeeded == ch_parsed # None /\ Val(ch_parsed).clarification_needed

\* C23: after a clarification neither the data processor nor the
\* explanation agent is ever invoked and the chain ends with the
\* short-circuit record carrying the error; otherwise the chain ends with
\* the data processor invoked before the explanation agent, the explanation
\* agent invoked once, on a dict that holds the processor's results.
C23_ShortCircuitOrPipeline ==
    /\ ClarificationNeeded =>
          /\ Count(ch_calls, "data_processor") = 0
          /\ Count(ch_calls, "explanation_agent") = 0
    /\ (ClarificationNeeded /\ ch_pc = "done") =>
          /\ DOMAIN ch_data = {"short_circuit", "error", "parsed", "raw_response"}
          /\ ch_data["short_circuit"] = TRUE
          /\ ch_data["error"] = get(Val(ch_parsed), "error", DefaultClarification)
    /\ Count(ch_calls, "explanation_agent") > 0 =>
          /\ Count(ch_calls, "explanation_agent") = 1
          /\ Count(ch_calls, "data_processor") = 1
          /\ \E i, j \in 1..Len(ch_calls) :
                /\ i < j
                /\ ch_calls[i] = "data_processor"
                /\ ch_calls[j] = "explanation_agent"
          /\ "results" \in DOMAIN Val(ch_seen.explainer)
          /\ Val(ch_seen.explainer)["results"] = Val(ch_seen.processor).results
    /\ (~ClarificationNeeded /\ ch_pc = "done") =>
          /\ Count(ch_calls, "explanation_agent") = 1
          /\ "short_circuit" \notin DOMAIN ch_data

\* C23 witness: a finished chain after a clarification with the parser's
\* error message.
C23_Witness ==
    /\ ch_pc = "done"
    /\ ClarificationNeeded
    /\ ch_calls = <<"intent_parser">>
    /\ ch_data["short_circuit"] = TRUE
    /\ ch_data["error"] = MissingSectorMessage

\* C23 witness of the other branch: a finished chain in which the processor,
\* the explanation agent and the language model ran, in that order.
C23_WitnessPipeline ==
    /\ ch_pc = "done"
    /\ ch_calls = <<"intent_parser", "data_processor", "explanation_agent", "llm">>
    /\ Len(ch_data["results"]) >= 2

\* C29: when the data processor's result has success = false, the chain's
\* output holds the intent, the query, results = [] and the explanation
\* 'Not enough data to explain.', no 'error' key, and the language model
\* was not called.
C29_ProcessorErrorDropped ==
    (/\ ch_pc = "done"
     /\ ch_seen.processor # None
     /\ ~Val(ch_seen.processor).success)
    => /\ "error" \in DOMAIN Val(ch_seen.processor)
       /\ DOMAIN ch_data = {"intent", "query", "results", "explanation"}
       /\ ch_data["intent"] = Val(ch_parsed)["intent"]
       /\ ch_data["query"] = Val(ch_parsed)["query"]
       /\ ch_data["results"] = <<>>
       /\ ch_data["explanation"] = NotEnoughData
       /\ Count(ch_calls, "llm") = 0

\* C29 witness: the processor answered 'No data fetched' and the chain
\* ended with the fixed explanation.
C29_Witness ==
    /\ ch_pc = "done"
    /\ ch_seen.processor # None
    /\ ~Val(ch_seen.processor).success
    /\ Val(ch_seen.processor).error = "No data fetched"
    /\ ch_calls = <<"intent_parser", "data_processor", "explanation_agent">>
    /\ ch_data["explanation"] = NotEnoughData

====
